---- MODULE Spec2Model ----
(***************************************************************************)
(* Announcement endpoints (src/backend/routers/announcements.py).          *)
(*                                                                         *)
(* Strings are sequences of one-character strings, so that str.strip,     *)
(* strptime, date.isoformat, ObjectId parsing and the store's string      *)
(* comparison are computed character by character.  None is a value that  *)
(* is no string.  The announcements collection is a function from          *)
(* ObjectId to document; the teachers collection is a fixed set of         *)
(* usernames.  Each handler is cut at its round trips to the              *)
(* announcements collection, the only state it shares with other requests. *)
(***************************************************************************)
EXTENDS Integers, Sequences, FiniteSets, TLC

VARIABLES announcements, nextOid, now, reqs, lastStoreOp

vars == <<announcements, nextOid, now, reqs, lastStoreOp>>

(***************************************************************************)
(* Bounds of the model.                                                    *)
(***************************************************************************)
MaxIds == 1
MaxClock == 1
ConcIds == 2
MaxConc == 2
SeedIds == 2

(***************************************************************************)
(* Characters and strings.                                                 *)
(***************************************************************************)
None == <<"None">>

DigitChars == <<"0", "1", "2", "3", "4", "5", "6", "7", "8", "9">>

IsDigit(c) == \E i \in 1..10 : DigitChars[i] = c

DigitVal(c) == (CHOOSE i \in 1..10 : DigitChars[i] = c) - 1

\* Code points of the characters that occur in stored date strings.
Ord(c) == IF c = "-" THEN 45 ELSE IF c = "/" THEN 47 ELSE IF c = "a" THEN 97 ELSE 48 + DigitVal(c)

IsAllDigits(s) == \A i \in 1..Len(s) : IsDigit(s[i])

RECURSIVE NumVal(_)
NumVal(s) == IF s = <<>> THEN 0 ELSE 10 * NumVal(SubSeq(s, 1, Len(s) - 1)) + DigitVal(s[Len(s)])

\* Binary string order, as the store compares two strings.
RECURSIVE StrLess(_, _)
StrLess(a, b) ==
    IF b = <<>> THEN FALSE
    ELSE IF a = <<>> THEN TRUE
    ELSE IF Ord(Head(a)) # Ord(Head(b)) THEN Ord(Head(a)) < Ord(Head(b))
    ELSE StrLess(Tail(a), Tail(b))

StrLE(a, b) == a = b \/ StrLess(a, b)

\* The whitespace str.strip removes (of it, the characters callers send here).
IsSpace(c) == c \in {" ", "\t", "\n"}

RECURSIVE LStrip(_)
LStrip(s) == IF s # <<>> /\ IsSpace(Head(s)) THEN LStrip(Tail(s)) ELSE s

RECURSIVE RStrip(_)
RStrip(s) == IF s # <<>> /\ IsSpace(s[Len(s)]) THEN RStrip(SubSeq(s, 1, Len(s) - 1)) ELSE s

\* str.strip()
Strip(s) == RStrip(LStrip(s))

\* str.split(sep) for a one-character separator
RECURSIVE Split(_, _)
Split(s, sep) ==
    IF \A i \in 1..Len(s) : s[i] # sep THEN <<s>>
    ELSE LET k == CHOOSE i \in 1..Len(s) : s[i] = sep /\ \A j \in 1..(i - 1) : s[j] # sep
         IN <<SubSeq(s, 1, k - 1)>> \o Split(SubSeq(s, k + 1, Len(s)), sep)

(***************************************************************************)
(* Dates: parse_date (strptime with DATE_FORMAT) and date.isoformat.       *)
(***************************************************************************)
IsLeap(y) == (y % 4 = 0 /\ y % 100 # 0) \/ y % 400 = 0

DaysInMonth(y, m) ==
    IF m = 2 THEN (IF IsLeap(y) THEN 29 ELSE 28)
    ELSE IF m \in {4, 6, 9, 11} THEN 30 ELSE 31

\* %Y: exactly four digits
YearField(s) == Len(s) = 4 /\ IsAllDigits(s)

\* %m: 1[0-2] | 0[1-9] | [1-9]
MonthField(s) == Len(s) \in {1, 2} /\ IsAllDigits(s) /\ NumVal(s) \in 1..12

\* %d: 3[01] | [12]\d | 0[1-9] | [1-9] | " "[1-9]
DayField(s) ==
    \/ Len(s) \in {1, 2} /\ IsAllDigits(s) /\ NumVal(s) \in 1..31
    \/ Len(s) = 2 /\ s[1] = " " /\ IsDigit(s[2]) /\ DigitVal(s[2]) >= 1

DayVal(s) == IF s[1] = " " THEN DigitVal(s[2]) ELSE NumVal(s)

\* datetime.strptime(value, "%Y-%m-%d").date(): the date, or ValueError
Strptime(value) ==
    LET parts == Split(value, "-")
    IN IF /\ Len(parts) = 3
          /\ YearField(parts[1])
          /\ MonthField(parts[2])
          /\ DayField(parts[3])
          /\ NumVal(parts[1]) >= 1
          /\ DayVal(parts[3]) <= DaysInMonth(NumVal(parts[1]), NumVal(parts[2]))
       THEN [kind |-> "date", y |-> NumVal(parts[1]), m |-> NumVal(parts[2]), d |-> DayVal(parts[3])]
       ELSE [kind |-> "ValueError"]

\* parse_date: None for None and "", the date, or HTTPException(400)
parse_date(value) ==
    IF value = None \/ value = <<>> THEN [kind |-> "None"]
    ELSE IF Strptime(value).kind = "date" THEN Strptime(value)
    ELSE [kind |-> "HTTPException", status |-> 400]

Pad2(n) == <<DigitChars[(n \div 10) + 1], DigitChars[(n % 10) + 1]>>

\* date.isoformat(): YYYY-MM-DD, zero padded
isoformat(dt) ==
    <<DigitChars[(dt.y \div 1000) + 1], DigitChars[((dt.y \div 100) % 10) + 1]>>
        \o Pad2(dt.y % 100) \o <<"-">> \o Pad2(dt.m) \o <<"-">> \o Pad2(dt.d)

\* date > date
DateGreater(a, b) ==
    \/ a.y > b.y
    \/ a.y = b.y /\ a.m > b.m
    \/ a.y = b.y /\ a.m = b.m /\ a.d > b.d

\* Mutant of validate_date_range: the range is not checked.
RangeNoCheck(start, end) == TRUE

\* Mutant of validate_date_range: the comparison is reversed.
RangeSwapped(start, end) ==
    ~(start.kind = "date" /\ DateGreater(end, start))

\* validate_date_range: TRUE when it returns, FALSE when it raises 400
validate_date_range(start, end) ==
    ~(start.kind = "date" /\ DateGreater(start, end))

(***************************************************************************)
(* Payload validation, teachers, ObjectId, serialisation.                  *)
(***************************************************************************)
TITLE_MAX == 80
MESSAGE_MAX == 280
OID_LEN == 24

\* The fields of AnnouncementPayload: a body that does not satisfy them never
\* becomes a payload, and the handler is not entered.
AnnouncementPayload(p) ==
    /\ p.title # None /\ Len(p.title) >= 1 /\ Len(p.title) <= TITLE_MAX
    /\ p.message # None /\ Len(p.message) >= 1 /\ Len(p.message) <= MESSAGE_MAX
    /\ p.end_date # None

\* teachers_collection: usernames (_id) of the teacher documents
teachers_collection == {<<"t", "1">>}

\* Mutant of require_teacher: any non-empty username passes.
RequireNoLookup(teacher_username, raises) ==
    IF teacher_username = None \/ teacher_username = <<>>
    THEN [kind |-> "HTTPException", status |-> 401, detail |-> "Authentication required"]
    ELSE [kind |-> "return", status |-> 0, detail |-> ""]

\* require_teacher: `raises` says whether teachers_collection.find_one raises
require_teacher(teacher_username, raises) ==
    IF teacher_username = None \/ teacher_username = <<>>
    THEN [kind |-> "HTTPException", status |-> 401, detail |-> "Authentication required"]
    ELSE IF raises
    THEN [kind |-> "Exception", status |-> 0, detail |-> "teachers_collection.find_one"]
    ELSE IF teacher_username \notin teachers_collection
    THEN [kind |-> "HTTPException", status |-> 401, detail |-> "Invalid teacher credentials"]
    ELSE [kind |-> "return", status |-> 0, detail |-> ""]

HexLower == <<"a", "b", "c", "d", "e", "f">>
HexUpper == <<"A", "B", "C", "D", "E", "F">>

IsHex(c) == IsDigit(c) \/ \E i \in 1..6 : c = HexLower[i] \/ c = HexUpper[i]

Lower(c) == IF \E i \in 1..6 : c = HexUpper[i] THEN HexLower[CHOOSE i \in 1..6 : c = HexUpper[i]] ELSE c

NoOid == <<>>

\* ObjectId(announcement_id): the id (24 hex digits, kept in lower case), or
\* NoOid when the constructor raises
ObjectId(announcement_id) ==
    IF Len(announcement_id) = OID_LEN /\ \A i \in 1..OID_LEN : IsHex(announcement_id[i])
    THEN [i \in 1..OID_LEN |-> Lower(announcement_id[i])]
    ELSE NoOid

\* The n-th ObjectId the store hands out (n < 10)
NewOid(n) == [i \in 1..OID_LEN |-> IF i = OID_LEN THEN DigitChars[n + 1] ELSE IF i = 1 THEN "a" ELSE "0"]

\* dict.get
Get(document, key) == IF key \in DOMAIN document THEN document[key] ELSE None

\* serialize_announcement; str(ObjectId) is its lower-case hex string
serialize_announcement(oid, document) ==
    [id |-> oid,
     title |-> Get(document, "title"),
     message |-> Get(document, "message"),
     start_date |-> Get(document, "start_date"),
     end_date |-> Get(document, "end_date"),
     created_at |-> Get(document, "created_at"),
     updated_at |-> Get(document, "updated_at")]

(***************************************************************************)
(* The queries and sort orders the handlers send to the store.             *)
(***************************************************************************)
IsStr(v) == v # None

\* Mutant of ActiveQuery: $gt in place of $gte.
ActiveQueryStrict(document, today) ==
    /\ "end_date" \in DOMAIN document
    /\ IsStr(document.end_date)
    /\ StrLess(today, document.end_date)
    /\ \/ "start_date" \notin DOMAIN document
       \/ document.start_date = None
       \/ document.start_date = <<>>
       \/ IsStr(document.start_date) /\ StrLE(document.start_date, today)

\* The filter of get_active_announcements: $gte and $lte match strings only,
\* {"start_date": None} matches a null and a missing field.
ActiveQuery(document, today) ==
    /\ "end_date" \in DOMAIN document
    /\ IsStr(document.end_date)
    /\ StrLE(today, document.end_date)
    /\ \/ "start_date" \notin DOMAIN document
       \/ document.start_date = None
       \/ document.start_date = <<>>
       \/ IsStr(document.start_date) /\ StrLE(document.start_date, today)

\* The store's order of two sort keys: null (or missing) before any string.
KeyLess(a, b) == IF a = None THEN b # None ELSE b # None /\ StrLess(a, b)

\* sort([("start_date", 1), ("created_at", -1)]); equal keys keep _id order
ActiveBefore(store, x, y) ==
    LET a == store[x]
        b == store[y]
    IN IF Get(a, "start_date") # Get(b, "start_date")
       THEN KeyLess(Get(a, "start_date"), Get(b, "start_date"))
       ELSE IF a.created_at # b.created_at THEN a.created_at > b.created_at
       ELSE StrLess(x, y)

\* sort([("end_date", -1), ("start_date", -1)]); equal keys keep _id order
AllBefore(store, x, y) ==
    LET a == store[x]
        b == store[y]
    IN IF Get(a, "end_date") # Get(b, "end_date")
       THEN KeyLess(Get(b, "end_date"), Get(a, "end_date"))
       ELSE IF Get(a, "start_date") # Get(b, "start_date")
       THEN KeyLess(Get(b, "start_date"), Get(a, "start_date"))
       ELSE StrLess(x, y)

RECURSIVE SortedSeq(_, _)
SortedSeq(S, prec) ==
    IF S = {} THEN <<>>
    ELSE LET m == CHOOSE x \in S : \A y \in S \ {x} : <<x, y>> \in prec
         IN <<m>> \o SortedSeq(S \ {m}, prec)

\* announcements_collection.find(query).sort(...), serialised
find_active(store, today) ==
    LET hits == {x \in DOMAIN store : ActiveQuery(store[x], today)}
        order == SortedSeq(hits, {q \in hits \X hits : ActiveBefore(store, q[1], q[2])})
    IN [i \in 1..Len(order) |-> serialize_announcement(order[i], store[order[i]])]

\* announcements_collection.find().sort(...), serialised
find_all(store) ==
    LET hits == DOMAIN store
        order == SortedSeq(hits, {q \in hits \X hits : AllBefore(store, q[1], q[2])})
    IN [i \in 1..Len(order) |-> serialize_announcement(order[i], store[order[i]])]

(***************************************************************************)
(* Responses and requests.                                                 *)
(***************************************************************************)
HTTPException(status, detail) ==
    [kind |-> "HTTPException", status |-> status, detail |-> detail, body |-> <<>>]

\* A value returned by the handler (answered with status 200); the body is
\* the list returned, or the one record returned as a one-element list.
Return(body) == [kind |-> "return", status |-> 200, detail |-> "", body |-> body]

\* An exception that leaves the handler uncaught.
Uncaught(detail) == [kind |-> "Exception", status |-> 0, detail |-> detail, body |-> <<>>]

NoResp == [kind |-> "none", status |-> 0, detail |-> "", body |-> <<>>]

NoPayload == [title |-> <<>>, message |-> <<>>, start_date |-> None, end_date |-> None]

NoOp == [op |-> "none", slot |-> 0, oid |-> NoOid]

Idle ==
    [op |-> "idle", pc |-> "idle", teacher |-> None, aid |-> None, payload |-> NoPayload,
     today |-> None, oid |-> NoOid, auth |-> "none", resp |-> NoResp, after |-> NoOp,
     wrote |-> FALSE]

\* How require_teacher ended for a request.
AuthOutcome(teacher_username, raises) ==
    LET r == require_teacher(teacher_username, raises)
    IN IF r.kind = "return" THEN "teacher"
       ELSE IF r.kind = "Exception" THEN "raised"
       ELSE IF teacher_username = None \/ teacher_username = <<>> THEN "missing"
       ELSE "unknown"

AuthResp(teacher_username, raises) ==
    LET r == require_teacher(teacher_username, raises)
    IN IF r.kind = "Exception" THEN Uncaught(r.detail) ELSE HTTPException(r.status, r.detail)

\* The checks create and update run on the payload before they build the
\* document: the 400 they raise, or NoResp when all pass.
ValidatePayload(payload) ==
    LET start_date == parse_date(payload.start_date)
        end_date == parse_date(payload.end_date)
    IN IF start_date.kind = "HTTPException"
       THEN HTTPException(400, "start_date must be in YYYY-MM-DD format")
       ELSE IF end_date.kind = "HTTPException"
       THEN HTTPException(400, "end_date must be in YYYY-MM-DD format")
       ELSE IF end_date.kind = "None"
       THEN HTTPException(400, "end_date is required")
       ELSE IF ~validate_date_range(start_date, end_date)
       THEN HTTPException(400, "start_date must be on or before end_date")
       ELSE NoResp

\* Mutant of ContentFields: title and message are stored as sent.
ContentNoStrip(payload) ==
    LET start_date == parse_date(payload.start_date)
        end_date == parse_date(payload.end_date)
    IN [title |-> payload.title,
        message |-> payload.message,
        start_date |-> IF start_date.kind = "date" THEN isoformat(start_date) ELSE None,
        end_date |-> isoformat(end_date)]

\* The content fields create and update write, for a payload that passed
\* ValidatePayload.
ContentFields(payload) ==
    LET start_date == parse_date(payload.start_date)
        end_date == parse_date(payload.end_date)
    IN [title |-> Strip(payload.title),
        message |-> Strip(payload.message),
        start_date |-> IF start_date.kind = "date" THEN isoformat(start_date) ELSE None,
        end_date |-> isoformat(end_date)]

\* update_one(..., {"$set": updates}): the fields named are replaced, the
\* others kept
SetFields(document, updates) ==
    [k \in DOMAIN document \cup DOMAIN updates |->
        IF k \in DOMAIN updates THEN updates[k] ELSE document[k]]

\* The four content fields of a document or of a serialised record.
Content(document) ==
    [title |-> Get(document, "title"),
     message |-> Get(document, "message"),
     start_date |-> Get(document, "start_date"),
     end_date |-> Get(document, "end_date")]

(***************************************************************************)
(* The calls on announcements_collection.                                  *)
(***************************************************************************)
\* insert_one(document), the store handing out oid as inserted_id
insert_one(store, oid, document) ==
    [x \in DOMAIN store \cup {oid} |-> IF x = oid THEN document ELSE store[x]]

\* Mutant of update_one: upsert=True.
UpdateUpsert(store, oid, updates) ==
    [matched_count |-> IF oid \in DOMAIN store THEN 1 ELSE 0,
     store |-> [x \in DOMAIN store \cup {oid} |->
                   IF x = oid THEN (IF oid \in DOMAIN store THEN SetFields(store[oid], updates) ELSE updates)
                   ELSE store[x]]]

\* update_one({"_id": oid}, {"$set": updates}): matched_count and the store after
update_one(store, oid, updates) ==
    [matched_count |-> IF oid \in DOMAIN store THEN 1 ELSE 0,
     store |-> IF oid \in DOMAIN store
               THEN [store EXCEPT ![oid] = SetFields(@, updates)]
               ELSE store]

\* find_one({"_id": oid}): <<document>>, or <<>> for None
find_one(store, oid) == IF oid \in DOMAIN store THEN <<store[oid]>> ELSE <<>>

\* delete_one({"_id": oid})
delete_one(store, oid) == [x \in DOMAIN store \ {oid} |-> store[x]]

\* The document create_announcement builds (both timestamps read the clock
\* within the same instant).
Document(payload, utcnow) ==
    SetFields(ContentFields(payload), [created_at |-> utcnow, updated_at |-> utcnow])

\* Mutant of Updates: the dates are left out of the $set.
UpdatesKeepDates(payload, utcnow) ==
    [title |-> Strip(payload.title), message |-> Strip(payload.message), updated_at |-> utcnow]

\* The updates update_announcement builds.
Updates(payload, utcnow) ==
    SetFields(ContentFields(payload), [updated_at |-> utcnow])

(***************************************************************************)
(* What the callers send.                                                  *)
(***************************************************************************)
Chars(n, c) == [i \in 1..n |-> c]

D0509 == <<"2", "0", "2", "4", "-", "0", "5", "-", "0", "9">>
D0510 == <<"2", "0", "2", "4", "-", "0", "5", "-", "1", "0">>
D0511 == <<"2", "0", "2", "4", "-", "0", "5", "-", "1", "1">>
D1001 == <<"2", "0", "2", "4", "-", "1", "0", "-", "0", "1">>
D59 == <<"2", "0", "2", "4", "-", "5", "-", "9">>
DSlash == <<"2", "0", "2", "4", "/", "0", "1", "/", "0", "1">>

Titles ==
    {<<>>, <<" ">>, <<" ", "E", "x", "a", "m", " ">>, Chars(TITLE_MAX, "a"), Chars(TITLE_MAX + 1, "a")}

Messages == {<<>>, <<"\t">>, <<"H", "i", "\n">>, Chars(MESSAGE_MAX + 1, "m")}

StartDates == {None, <<>>, D59, D0510, D0511, DSlash}

EndDates == {None, <<>>, D0510, DSlash}

Bodies == [title : Titles, message : Messages, start_date : StartDates, end_date : EndDates]

Usernames == {None, <<>>, <<"t", "1">>, <<"g", "h", "o", "s", "t">>}

AnnouncementIds(n) == {NewOid(k) : k \in 1..n} \cup {<<"n", "o", "i", "d">>}

\* date.today().isoformat()
Todays == {D0509, D0510, D0511}

(***************************************************************************)
(* The handlers.  s is the request's slot; each store call may raise.      *)
(***************************************************************************)
Finish(s, r, resp) ==
    reqs' = [reqs EXCEPT ![s] = [r EXCEPT !.pc = "done", !.resp = resp]]

\* GET /announcements/active
get_active_announcements(s, days, faults) ==
    /\ reqs[s].pc = "idle"
    /\ \E today \in days, raises \in faults :
        LET r == [Idle EXCEPT !.op = "get_active", !.today = today, !.after = lastStoreOp]
        IN IF raises
           THEN Finish(s, r, HTTPException(500, "Failed to load announcements"))
           ELSE Finish(s, r, Return(find_active(announcements, today)))
    /\ UNCHANGED <<announcements, nextOid, now, lastStoreOp>>

\* GET /announcements
list_announcements(s, users, faults) ==
    /\ reqs[s].pc = "idle"
    /\ \E teacher \in users, traises \in faults, raises \in faults :
        LET r == [Idle EXCEPT !.op = "list", !.teacher = teacher,
                              !.auth = AuthOutcome(teacher, traises), !.after = lastStoreOp]
        IN IF r.auth # "teacher" THEN Finish(s, r, AuthResp(teacher, traises))
           ELSE IF raises
           THEN Finish(s, r, HTTPException(500, "Failed to load announcements"))
           ELSE Finish(s, r, Return(find_all(announcements)))
    /\ UNCHANGED <<announcements, nextOid, now, lastStoreOp>>

\* POST /announcements
create_announcement(s, users, bodies, maxIds, faults) ==
    /\ reqs[s].pc = "idle"
    /\ \E teacher \in users, payload \in bodies, traises \in faults, raises \in faults :
        /\ AnnouncementPayload(payload)
        /\ LET r == [Idle EXCEPT !.op = "create", !.teacher = teacher, !.payload = payload,
                                 !.auth = AuthOutcome(teacher, traises)]
               document == Document(payload, now)
               oid == NewOid(nextOid)
           IN IF r.auth # "teacher"
              THEN /\ Finish(s, r, AuthResp(teacher, traises))
                   /\ UNCHANGED <<announcements, nextOid, lastStoreOp>>
              ELSE IF ValidatePayload(payload) # NoResp
              THEN /\ Finish(s, r, ValidatePayload(payload))
                   /\ UNCHANGED <<announcements, nextOid, lastStoreOp>>
              ELSE IF raises
              THEN /\ Finish(s, r, HTTPException(500, "Failed to create announcement"))
                   /\ UNCHANGED <<announcements, nextOid, lastStoreOp>>
              ELSE /\ nextOid <= maxIds
                   /\ announcements' = insert_one(announcements, oid, document)
                   /\ nextOid' = nextOid + 1
                   /\ lastStoreOp' = [op |-> "insert_one", slot |-> s, oid |-> oid]
                   /\ Finish(s, [r EXCEPT !.oid = oid, !.wrote = TRUE],
                             Return(<<serialize_announcement(oid, document)>>))
    /\ UNCHANGED now

\* PUT /announcements/{id}, up to update_one
update_announcement(s, users, bodies, ids, faults) ==
    /\ reqs[s].pc = "idle"
    /\ \E teacher \in users, payload \in bodies, aid \in ids, traises \in faults, raises \in faults :
        /\ AnnouncementPayload(payload)
        /\ LET r == [Idle EXCEPT !.op = "update", !.teacher = teacher, !.payload = payload,
                                 !.aid = aid, !.auth = AuthOutcome(teacher, traises)]
               oid == ObjectId(aid)
               updates == Updates(payload, now)
               result == update_one(announcements, oid, updates)
           IN IF r.auth # "teacher"
              THEN /\ Finish(s, r, AuthResp(teacher, traises))
                   /\ UNCHANGED <<announcements, lastStoreOp>>
              ELSE IF ValidatePayload(payload) # NoResp
              THEN /\ Finish(s, r, ValidatePayload(payload))
                   /\ UNCHANGED <<announcements, lastStoreOp>>
              ELSE IF oid = NoOid
              THEN /\ Finish(s, r, HTTPException(400, "Invalid announcement id"))
                   /\ UNCHANGED <<announcements, lastStoreOp>>
              ELSE IF raises
              THEN /\ Finish(s, [r EXCEPT !.oid = oid], HTTPException(500, "Failed to update announcement"))
                   /\ UNCHANGED <<announcements, lastStoreOp>>
              ELSE IF result.matched_count = 0
              THEN /\ announcements' = result.store
                   /\ Finish(s, [r EXCEPT !.oid = oid], HTTPException(404, "Announcement not found"))
                   /\ UNCHANGED lastStoreOp
              ELSE /\ announcements' = result.store
                   /\ lastStoreOp' = [op |-> "update_one", slot |-> s, oid |-> oid]
                   /\ reqs' = [reqs EXCEPT ![s] = [r EXCEPT !.oid = oid, !.wrote = TRUE, !.pc = "find_one"]]
    /\ UNCHANGED <<nextOid, now>>

\* PUT /announcements/{id}, from find_one on
update_read(s, faults) ==
    /\ reqs[s].pc = "find_one"
    /\ \E raises \in faults :
        LET r == [reqs[s] EXCEPT !.after = lastStoreOp]
        IN IF raises
           THEN Finish(s, r, HTTPException(500, "Failed to update announcement"))
           ELSE IF find_one(announcements, r.oid) = <<>>
           THEN Finish(s, r, HTTPException(404, "Announcement not found"))
           ELSE Finish(s, r, Return(<<serialize_announcement(r.oid, find_one(announcements, r.oid)[1])>>))
    /\ UNCHANGED <<announcements, nextOid, now, lastStoreOp>>

\* DELETE /announcements/{id}, up to find_one
delete_announcement(s, users, ids, faults) ==
    /\ reqs[s].pc = "idle"
    /\ \E teacher \in users, aid \in ids, traises \in faults, raises \in faults :
        LET r == [Idle EXCEPT !.op = "delete", !.teacher = teacher, !.aid = aid,
                              !.auth = AuthOutcome(teacher, traises)]
            oid == ObjectId(aid)
        IN IF r.auth # "teacher" THEN Finish(s, r, AuthResp(teacher, traises))
           ELSE IF oid = NoOid
           THEN Finish(s, r, HTTPException(400, "Invalid announcement id"))
           ELSE IF raises
           THEN Finish(s, [r EXCEPT !.oid = oid], HTTPException(500, "Failed to delete announcement"))
           ELSE IF find_one(announcements, oid) = <<>>
           THEN Finish(s, [r EXCEPT !.oid = oid], HTTPException(404, "Announcement not found"))
           ELSE reqs' = [reqs EXCEPT ![s] = [r EXCEPT !.oid = oid, !.pc = "delete_one"]]
    /\ UNCHANGED <<announcements, nextOid, now, lastStoreOp>>

\* DELETE /announcements/{id}, from delete_one on
delete_remove(s, faults) ==
    /\ reqs[s].pc = "delete_one"
    /\ \E raises \in faults :
        LET r == reqs[s]
        IN IF raises
           THEN /\ Finish(s, r, HTTPException(500, "Failed to delete announcement"))
                /\ UNCHANGED <<announcements, lastStoreOp>>
           ELSE /\ announcements' = delete_one(announcements, r.oid)
                /\ lastStoreOp' = IF r.oid \in DOMAIN announcements
                                  THEN [op |-> "delete_one", slot |-> s, oid |-> r.oid]
                                  ELSE lastStoreOp
                /\ Finish(s, [r EXCEPT !.wrote = r.oid \in DOMAIN announcements],
                          [Return(<<>>) EXCEPT !.detail = "Announcement deleted"])
    /\ UNCHANGED <<nextOid, now>>

\* The response is sent; the slot serves the next request.
Respond(s) ==
    /\ reqs[s].pc = "done"
    /\ reqs' = [reqs EXCEPT ![s] = Idle]
    /\ UNCHANGED <<announcements, nextOid, now, lastStoreOp>>

\* datetime.utcnow() advances.
Tick ==
    /\ now < MaxClock
    /\ now' = now + 1
    /\ UNCHANGED <<announcements, nextOid, reqs, lastStoreOp>>

(***************************************************************************)
(* Spec: one request at a time, every kind of input.                       *)
(***************************************************************************)
Init ==
    /\ announcements = <<>>
    /\ nextOid = 1
    /\ now = 0
    /\ reqs = [s \in {1} |-> Idle]
    /\ lastStoreOp = NoOp

Next ==
    \/ \E s \in DOMAIN reqs : get_active_announcements(s, Todays, BOOLEAN)
    \/ \E s \in DOMAIN reqs : list_announcements(s, Usernames, BOOLEAN)
    \/ \E s \in DOMAIN reqs : create_announcement(s, Usernames, Bodies, MaxIds, BOOLEAN)
    \/ \E s \in DOMAIN reqs : update_announcement(s, Usernames, Bodies, AnnouncementIds(MaxIds + 1), BOOLEAN)
    \/ \E s \in DOMAIN reqs : update_read(s, BOOLEAN)
    \/ \E s \in DOMAIN reqs : delete_announcement(s, Usernames, AnnouncementIds(MaxIds + 1), BOOLEAN)
    \/ \E s \in DOMAIN reqs : delete_remove(s, BOOLEAN)
    \/ \E s \in DOMAIN reqs : Respond(s)
    \/ Tick

Spec == Init /\ [][Next]_vars

(***************************************************************************)
(* SpecConc: MaxConc requests in flight, authenticated callers sending     *)
(* payloads that pass validation, a store that answers, and the requests   *)
(* within one reading of the clock.                                        *)
(***************************************************************************)
ConcBodies ==
    {[title |-> <<" ", "E", "x", "a", "m", " ">>, message |-> <<"H", "i", "\n">>,
      start_date |-> None, end_date |-> D0510],
     [title |-> <<"Q">>, message |-> <<"\t", "G", "o">>,
      start_date |-> D59, end_date |-> D1001]}

ConcUsers == {<<"t", "1">>}

ConcOids == {NewOid(k) : k \in 1..ConcIds}

InitConc ==
    /\ announcements = <<>>
    /\ nextOid = 1
    /\ now = 0
    /\ reqs = [s \in 1..MaxConc |-> Idle]
    /\ lastStoreOp = NoOp

NextConc ==
    \/ \E s \in DOMAIN reqs : get_active_announcements(s, {D0510}, {FALSE})
    \/ \E s \in DOMAIN reqs : list_announcements(s, ConcUsers, {FALSE})
    \/ \E s \in DOMAIN reqs : create_announcement(s, ConcUsers, ConcBodies, ConcIds, {FALSE})
    \/ \E s \in DOMAIN reqs : update_announcement(s, ConcUsers, ConcBodies, ConcOids, {FALSE})
    \/ \E s \in DOMAIN reqs : update_read(s, {FALSE})
    \/ \E s \in DOMAIN reqs : delete_announcement(s, ConcUsers, ConcOids, {FALSE})
    \/ \E s \in DOMAIN reqs : delete_remove(s, {FALSE})
    \/ \E s \in DOMAIN reqs : Respond(s)

SpecConc == InitConc /\ [][NextConc]_vars

(***************************************************************************)
(* SpecActive: get_active_announcements over collections that also hold    *)
(* documents of other writers (start_date missing, null or empty).         *)
(***************************************************************************)
SeedDocs ==
    {[title |-> <<"S">>, message |-> <<"m">>, end_date |-> e, created_at |-> 0, updated_at |-> 0] :
        e \in {D0509, D0510, D1001}}
    \cup [title : {<<"S">>}, message : {<<"m">>}, start_date : {None, <<>>, D0509, D0510, D0511},
          end_date : {D0509, D0510, D1001}, created_at : {1}, updated_at : {1}]

SeedOids == {NewOid(k) : k \in 1..SeedIds}

InitActive ==
    /\ \E O \in SUBSET SeedOids : announcements \in [O -> SeedDocs]
    /\ nextOid = SeedIds + 1
    /\ now = 0
    /\ reqs = [s \in {1} |-> Idle]
    /\ lastStoreOp = NoOp

NextActive ==
    \/ \E s \in DOMAIN reqs : get_active_announcements(s, Todays, BOOLEAN)
    \/ \E s \in DOMAIN reqs : Respond(s)

SpecActive == InitActive /\ [][NextActive]_vars

(***************************************************************************)
(* Properties.                                                             *)
(***************************************************************************)
Slots == DOMAIN reqs

Done(s) == reqs[s].pc = "done"

\* A date string read as a calendar date.
AsDate(v) == Strptime(v)

OnOrBefore(a, b) == AsDate(a).kind = "date" /\ AsDate(b).kind = "date" /\ ~DateGreater(AsDate(a), AsDate(b))

StartsAfterEnd(payload) ==
    /\ payload.start_date # None /\ payload.end_date # None
    /\ AsDate(payload.start_date).kind = "date" /\ AsDate(payload.end_date).kind = "date"
    /\ DateGreater(AsDate(payload.start_date), AsDate(payload.end_date))

\* The content a record holds after a create or update with this payload:
\* title and message stripped, dates in ISO form, no start date as null.
Expected(payload) ==
    [title |-> Strip(payload.title),
     message |-> Strip(payload.message),
     start_date |-> IF payload.start_date = None \/ payload.start_date = <<>> THEN None
                    ELSE isoformat(AsDate(payload.start_date)),
     end_date |-> isoformat(AsDate(payload.end_date))]

NoTeacher(r) ==
    \/ r.teacher = None
    \/ r.teacher = <<>>
    \/ r.teacher \notin teachers_collection /\ r.auth # "raised"

\* The slot whose request took the step.
Moved(s) == reqs'[s] # reqs[s]

\* C1: every stored record has an end_date, and a record with a start_date
\* has it on or before its end_date (as calendar dates).
C1_DateRange ==
    \A x \in DOMAIN announcements :
        LET d == announcements[x]
        IN /\ Get(d, "end_date") # None
           /\ AsDate(d.end_date).kind = "date"
           /\ Get(d, "start_date") # None => OnOrBefore(d.start_date, d.end_date)

C1_Witness ==
    \E x \in DOMAIN announcements :
        /\ announcements[x].start_date # None
        /\ Done(1) /\ reqs[1].op = "update" /\ reqs[1].resp.status = 400
        /\ StartsAfterEnd(reqs[1].payload)

\* C2: every stored record has a title of 1 to 80 characters and a message
\* of 1 to 280 characters.
C2_Lengths ==
    \A x \in DOMAIN announcements :
        /\ Len(announcements[x].title) >= 1 /\ Len(announcements[x].title) <= TITLE_MAX
        /\ Len(announcements[x].message) >= 1 /\ Len(announcements[x].message) <= MESSAGE_MAX

\* The records get_active_announcements is to return on `today`.
ActiveOn(store, today) ==
    {x \in DOMAIN store :
        /\ Get(store[x], "end_date") # None
        /\ OnOrBefore(today, store[x].end_date)
        /\ \/ Get(store[x], "start_date") \in {None, <<>>}
           \/ OnOrBefore(store[x].start_date, today)}

\* C3: get_active_announcements returns exactly the records whose end_date
\* is on or after today and whose start_date is missing, null, empty or on or
\* before today, each once, and asks for no teacher.
C3_ActiveExact ==
    \A s \in Slots :
        Done(s) /\ reqs[s].op = "get_active" /\ reqs[s].resp.kind = "return" =>
            LET body == reqs[s].resp.body
            IN /\ {body[i].id : i \in 1..Len(body)} = ActiveOn(announcements, reqs[s].today)
               /\ Len(body) = Cardinality(ActiveOn(announcements, reqs[s].today))
               /\ \A i \in 1..Len(body) : Content(body[i]) = Content(announcements[body[i].id])
               /\ reqs[s].auth = "none"

C3_Witness ==
    /\ Done(1) /\ reqs[1].op = "get_active" /\ reqs[1].resp.kind = "return"
    /\ Len(reqs[1].resp.body) = 1
    /\ Cardinality(DOMAIN announcements) = 2
    /\ \E x \in DOMAIN announcements : "start_date" \notin DOMAIN announcements[x]
    /\ \E x \in DOMAIN announcements :
        /\ Get(announcements[x], "start_date") = D0511
        /\ reqs[1].today = D0510

\* C4: a list, create, update or delete request without an existing teacher
\* ends with 401 and leaves the collection as it was; every change of the
\* collection is made by a request of an existing teacher.
C4_Step ==
    /\ \A s \in Slots :
        Moved(s) /\ reqs[s].pc = "idle" /\ reqs'[s].op \in {"list", "create", "update", "delete"}
            /\ NoTeacher(reqs'[s]) =>
                /\ reqs'[s].pc = "done"
                /\ reqs'[s].resp.kind = "HTTPException"
                /\ reqs'[s].resp.status = 401
                /\ announcements' = announcements
    /\ announcements' # announcements =>
        \E s \in Slots : Moved(s) /\ reqs'[s].teacher \in teachers_collection

\* C4: every step of every request satisfies C4_Step.
C4_Unauthorized == [][C4_Step]_vars

C4_Witness ==
    /\ Done(1) /\ reqs[1].op = "update" /\ reqs[1].resp.status = 401
    /\ reqs[1].teacher = <<"g", "h", "o", "s", "t">>
    /\ StartsAfterEnd(reqs[1].payload)
    /\ ObjectId(reqs[1].aid) \in DOMAIN announcements

\* The content fields as the request gives them.
RequestFields(payload) ==
    [title |-> payload.title,
     message |-> payload.message,
     start_date |-> payload.start_date,
     end_date |-> payload.end_date]

\* A list request answered right after the insert of a create request that
\* still holds its slot: c is the slot of the create, s the slot of the list.
ListAfterCreate(s, c) ==
    /\ Done(s) /\ reqs[s].op = "list" /\ reqs[s].resp.kind = "return"
    /\ reqs[s].after.op = "insert_one" /\ reqs[s].after.slot = c
    /\ Done(c) /\ reqs[c].op = "create" /\ reqs[c].resp.kind = "return"
    /\ reqs[c].oid = reqs[s].after.oid

\* C5 as stated: the list that follows a create holds the created record
\* with the content fields of the create request.
C5_RequestFields ==
    \A s \in Slots, c \in Slots :
        ListAfterCreate(s, c) =>
            \E i \in 1..Len(reqs[s].resp.body) :
                /\ reqs[s].resp.body[i].id = reqs[c].resp.body[1].id
                /\ Content(reqs[s].resp.body[i]) = RequestFields(reqs[c].payload)

\* C5 as amended: the list that follows a create holds the created record,
\* under the id create returned, with title and message stripped, the dates in
\* ISO form and a missing or empty start_date as null.
C5_NormalisedFields ==
    \A s \in Slots, c \in Slots :
        ListAfterCreate(s, c) =>
            /\ ~StartsAfterEnd(reqs[c].payload)
            /\ \E i \in 1..Len(reqs[s].resp.body) :
                /\ reqs[s].resp.body[i].id = reqs[c].resp.body[1].id
                /\ Content(reqs[s].resp.body[i]) = Expected(reqs[c].payload)
                /\ Content(reqs[c].resp.body[1]) = Expected(reqs[c].payload)

C5_Witness ==
    \E s \in Slots, c \in Slots :
        /\ ListAfterCreate(s, c)
        /\ Len(reqs[s].resp.body) = 2
        /\ reqs[c].payload.title # Strip(reqs[c].payload.title)

\* The request of slot s, an update or delete of an existing teacher with a
\* payload that passes validation and a well-formed id, looks its id up in
\* this step, the collection holds no record of that id, and the store
\* answers.
LooksUpMissing(s) ==
    /\ Moved(s) /\ reqs[s].pc = "idle"
    /\ reqs'[s].op \in {"update", "delete"}
    /\ reqs'[s].auth = "teacher"
    /\ reqs'[s].op = "update" => ValidatePayload(reqs'[s].payload) = NoResp
    /\ ObjectId(reqs'[s].aid) # NoOid
    /\ ObjectId(reqs'[s].aid) \notin DOMAIN announcements
    /\ ~(reqs'[s].resp.kind = "HTTPException" /\ reqs'[s].resp.status = 500)

\* C6: update and delete of an id the collection holds no record of end with
\* 404 and leave the collection as it was.
C6_Step ==
    \A s \in Slots :
        LooksUpMissing(s) =>
            /\ reqs'[s].pc = "done"
            /\ reqs'[s].resp.kind = "HTTPException"
            /\ reqs'[s].resp.status = 404
            /\ announcements' = announcements

\* C6: every lookup of an id without a record ends as C6_Step says.
C6_NotFound == [][C6_Step]_vars

C6_Witness ==
    /\ Done(1) /\ reqs[1].op = "update" /\ reqs[1].resp.status = 404
    /\ DOMAIN announcements = {} /\ nextOid > 1
    /\ reqs[1].oid = NewOid(1)

\* C7: create with a start_date after its end_date ends with 400, whatever
\* title and message are, and inserts nothing.
C7_Step ==
    \A s \in Slots :
        Moved(s) /\ reqs[s].pc = "idle" /\ reqs'[s].op = "create"
            /\ reqs'[s].auth = "teacher" /\ StartsAfterEnd(reqs'[s].payload) =>
                /\ reqs'[s].pc = "done"
                /\ reqs'[s].resp.kind = "HTTPException"
                /\ reqs'[s].resp.status = 400
                /\ announcements' = announcements
                /\ nextOid' = nextOid

\* C7: every create with start_date after end_date ends as C7_Step says.
C7_InvalidRange == [][C7_Step]_vars

C7_Witness ==
    /\ Done(1) /\ reqs[1].op = "create" /\ reqs[1].resp.status = 400
    /\ StartsAfterEnd(reqs[1].payload)
    /\ reqs[1].payload.title = <<" ">>
    /\ Len(reqs[1].payload.message) = 1

\* C8: no exception leaves a handler uncaught: a store call that raises, the
\* teacher lookup included, ends the request with a 500 HTTPException, and a
\* 400, 401 or 404 is never answered as 500.
C8_AllCaught ==
    \A s \in Slots :
        Done(s) =>
            /\ reqs[s].resp.kind \in {"return", "HTTPException"}
            /\ reqs[s].auth = "raised" =>
                reqs[s].resp.kind = "HTTPException" /\ reqs[s].resp.status = 500

\* C9: a step changes the record of at most the id of the request that takes
\* it, and a record an update changes then holds the four content fields of
\* that update's payload.
C9_Step ==
    \A x \in DOMAIN announcements \cup DOMAIN announcements' :
        LET before == IF x \in DOMAIN announcements THEN <<announcements[x]>> ELSE <<>>
            after == IF x \in DOMAIN announcements' THEN <<announcements'[x]>> ELSE <<>>
        IN before # after =>
            \E s \in Slots :
                /\ Moved(s) /\ reqs'[s].oid = x
                /\ \A t \in Slots \ {s} : ~Moved(t)
                /\ reqs'[s].op \in {"create", "update", "delete"}
                /\ reqs'[s].op = "create" => before = <<>>
                /\ reqs'[s].op = "delete" => after = <<>>
                /\ reqs'[s].op = "update" =>
                    /\ before # <<>> /\ after # <<>>
                    /\ Content(after[1]) = Expected(reqs'[s].payload)

\* C9: every step of every interleaving satisfies C9_Step.
C9_LastWriteWins == [][C9_Step]_vars

\* Two updates of one id were both applied, and the record holds the content
\* of the one applied last, which differs from the other's in every field.
C9_Witness ==
    \E s \in Slots, t \in Slots :
        /\ s # t
        /\ reqs[s].op = "update" /\ reqs[s].wrote
        /\ reqs[t].op = "update" /\ reqs[t].wrote
        /\ reqs[s].oid = reqs[t].oid
        /\ reqs[s].payload # reqs[t].payload
        /\ lastStoreOp = [op |-> "update_one", slot |-> t, oid |-> reqs[t].oid]
        /\ Cardinality(DOMAIN announcements) = 2
        /\ Content(announcements[reqs[t].oid]) = Expected(reqs[t].payload)

\* C10: an update whose update_one matched a record returns that record with
\* the content of its own payload.
C10_OwnContent ==
    \A s \in Slots :
        Done(s) /\ reqs[s].op = "update" /\ reqs[s].wrote =>
            /\ reqs[s].resp.kind = "return"
            /\ Content(reqs[s].resp.body[1]) = Expected(reqs[s].payload)

\* C10, its last part alone: an update whose update_one matched a record is
\* never answered with 404.
C10_Found ==
    \A s \in Slots :
        Done(s) /\ reqs[s].op = "update" /\ reqs[s].wrote => reqs[s].resp.status # 404

====
